---------------------------- MODULE Spec2Model ----------------------------
(***************************************************************************)
(* A model of scqubits' FluxQubit (src/scqubits/core/flux_qubit.py): the   *)
(* parameter set, the operator builders, the Kronecker composition, the    *)
(* Hamiltonian assembly, the spectral hooks and the wavefunction reshape.  *)
(*                                                                         *)
(* Numbers.  A real number is a fraction <<n, d>> in lowest terms, d > 0.  *)
(* A complex matrix entry is <<re, im, dre, dim>>: the value               *)
(*      (re + dre*delta) + i*(im + dim*delta)                              *)
(* where delta = pi/2 - fl(pi/2) (about 6.1e-17) is the amount by which    *)
(* the double np.pi/2 falls short of pi/2.  np.pi is the only non-rational *)
(* constant the code uses; the delta parts record, to first order, what    *)
(* np.exp(1j * 2 * np.pi * flux) returns for a flux that is a multiple of  *)
(* 1/4 (for instance exp(1j*2*np.pi*0.25) = 6.1e-17 + 1j, i.e. delta + i). *)
(***************************************************************************)
EXTENDS Integers, Sequences, FiniteSets, TLC

VARIABLES
    qubit,    \* the parameter set: the attributes of the FluxQubit object
    ctor,     \* the arguments the constructor was called with
    last,     \* what the caller holds: the operation just made and what it returned
    nAssign,  \* number of attribute assignments made since construction
    lapack    \* how the installed solver rounds (see sp_linalg_eigh)

vars == <<qubit, ctor, last, nAssign, lapack>>

---------------------------------------------------------------------------
(* Bounds of the model *)

MaxNcut == 1

MaxAssign == 2

---------------------------------------------------------------------------
(* Real arithmetic on fractions *)

RECURSIVE GCD(_, _)
GCD(a, b) == IF b = 0 THEN a ELSE GCD(b, a % b)

Abs(n) == IF n < 0 THEN -n ELSE n

Frac(n, d) ==
    LET s == IF d < 0 THEN -1 ELSE 1
        g == GCD(Abs(n), Abs(d))
    IN  <<(s * n) \div g, (s * d) \div g>>

F0 == <<0, 1>>

F1 == <<1, 1>>

FInt(n) == <<n, 1>>

\* a + b over the least common denominator
FAdd(a, b) ==
    IF a[1] = 0 THEN b
    ELSE IF b[1] = 0 THEN a
    ELSE LET g == GCD(a[2], b[2])
         IN  Frac(a[1] * (b[2] \div g) + b[1] * (a[2] \div g), (a[2] \div g) * b[2])

FNeg(a) == <<-a[1], a[2]>>

FSub(a, b) == FAdd(a, FNeg(b))

\* a * b, cancelling common factors before multiplying
FMul(a, b) ==
    IF a[1] = 0 \/ b[1] = 0 THEN F0
    ELSE IF a = F1 THEN b
    ELSE IF b = F1 THEN a
    ELSE LET g1 == GCD(Abs(a[1]), b[2])
             g2 == GCD(Abs(b[1]), a[2])
         IN  <<(a[1] \div g1) * (b[1] \div g2), (a[2] \div g2) * (b[2] \div g1)>>

\* a / b for b # 0
FDiv(a, b) ==
    IF b[1] < 0 THEN FMul(a, <<-b[2], -b[1]>>) ELSE FMul(a, <<b[2], b[1]>>)

FLeq(a, b) == a[1] * b[2] <= b[1] * a[2]

---------------------------------------------------------------------------
(* Complex numbers with the first-order delta part *)

C0 == <<F0, F0, F0, F0>>

C1one == <<F1, F0, F0, F0>>

CReal(f) == <<f, F0, F0, F0>>

CAdd(a, b) ==
    IF a = C0 THEN b
    ELSE IF b = C0 THEN a
    ELSE <<FAdd(a[1], b[1]), FAdd(a[2], b[2]), FAdd(a[3], b[3]), FAdd(a[4], b[4])>>

CNeg(a) == <<FNeg(a[1]), FNeg(a[2]), FNeg(a[3]), FNeg(a[4])>>

CSub(a, b) == CAdd(a, CNeg(b))

\* (re + dre*delta + i(im + dim*delta)) * (...), terms in delta^2 dropped
CMul(a, b) ==
    IF a = C0 \/ b = C0 THEN C0
    ELSE IF a = C1one THEN b
    ELSE IF b = C1one THEN a
    ELSE <<FSub(FMul(a[1], b[1]), FMul(a[2], b[2])),
           FAdd(FMul(a[1], b[2]), FMul(a[2], b[1])),
           FSub(FAdd(FMul(a[1], b[3]), FMul(a[3], b[1])),
                FAdd(FMul(a[2], b[4]), FMul(a[4], b[2]))),
           FAdd(FAdd(FMul(a[1], b[4]), FMul(a[3], b[2])),
                FAdd(FMul(a[2], b[3]), FMul(a[4], b[1])))>>

\* a real scalar times a complex number
CScale(f, a) ==
    IF a = C0 THEN C0
    ELSE <<FMul(f, a[1]), FMul(f, a[2]), FMul(f, a[3]), FMul(f, a[4])>>

CConj(a) == <<a[1], FNeg(a[2]), a[3], FNeg(a[4])>>

---------------------------------------------------------------------------
(* numpy array operations on square matrices.  A matrix is a function      *)
(* from row index to (function from column index to entry), indices from 0 *)

Dim(M) == Cardinality(DOMAIN M)

Idx(n) == 0 .. (n - 1)

\* np.zeros((n, n))
np_zeros(n) == [r \in Idx(n) |-> [c \in Idx(n) |-> C0]]

\* np.eye(n)
np_eye(n) == [r \in Idx(n) |-> [c \in Idx(n) |-> IF r = c THEN C1one ELSE C0]]

\* np.arange(lo, hi): the sequence lo, lo+1, ..., hi-1 (indexed from 0)
np_arange(lo, hi) == [i \in Idx(hi - lo) |-> CReal(FInt(lo + i))]

\* np.ones(n)
np_ones(n) == [i \in Idx(n) |-> C1one]

\* np.diag(v, k) for k >= 0: a (len(v)+k) x (len(v)+k) matrix with v on the
\* k-th diagonal, entry [i, i+k] = v[i]
np_diag(v, k) ==
    LET n == Cardinality(DOMAIN v) + k
    IN  [r \in Idx(n) |-> [c \in Idx(n) |-> IF c = r + k THEN v[r] ELSE C0]]

\* A.T
Transpose(A) == [r \in DOMAIN A |-> [c \in DOMAIN A |-> A[c][r]]]

\* A.conj()
Conj(A) == [r \in DOMAIN A |-> [c \in DOMAIN A |-> CConj(A[r][c])]]

\* A + B, A - B
MAdd(A, B) == [r \in DOMAIN A |-> [c \in DOMAIN A |-> CAdd(A[r][c], B[r][c])]]

MSub(A, B) == [r \in DOMAIN A |-> [c \in DOMAIN A |-> CSub(A[r][c], B[r][c])]]

\* f * A for a real scalar f
MScale(f, A) == [r \in DOMAIN A |-> [c \in DOMAIN A |-> CScale(f, A[r][c])]]

\* z * A for a complex scalar z
MCScale(z, A) == [r \in DOMAIN A |-> [c \in DOMAIN A |-> CMul(z, A[r][c])]]

RECURSIVE DotFrom(_, _, _, _, _)
DotFrom(A, B, r, c, k) ==
    IF k = Dim(A) THEN C0
    ELSE CAdd(CMul(A[r][k], B[k][c]), DotFrom(A, B, r, c, k + 1))

\* np.matmul(A, B)
np_matmul(A, B) == [r \in DOMAIN A |-> [c \in DOMAIN A |-> DotFrom(A, B, r, c, 0)]]

\* np.kron(A, B): entry [i*dB + j, k*dB + l] = A[i, k] * B[j, l]
np_kron(A, B) ==
    LET dA == Dim(A)
        dB == Dim(B)
    IN  [r \in Idx(dA * dB) |-> [c \in Idx(dA * dB) |->
            CMul(A[r \div dB][c \div dB], B[r % dB][c % dB])]]

---------------------------------------------------------------------------
(* np.pi and np.exp of an imaginary argument.  An angle is <<q, e>>: the   *)
(* real number q*(pi/2) + e*delta, q and e fractions.                      *)

\* np.pi = fl(pi) = 2*(pi/2) - 2*delta
np_pi == <<FInt(2), FInt(-2)>>

AngleScale(f, a) == <<FMul(f, a[1]), FMul(f, a[2])>>

\* cos(q*pi/2) and sin(q*pi/2) for an integer q
CosQuarter(q) == IF q % 4 = 0 THEN 1 ELSE IF q % 4 = 2 THEN -1 ELSE 0

SinQuarter(q) == IF q % 4 = 1 THEN 1 ELSE IF q % 4 = 3 THEN -1 ELSE 0

\* np.exp(1j * a) = cos(a) + i sin(a), for an angle whose q is an integer;
\* to first order in delta:
\*    cos(q pi/2 + e delta) = cos(q pi/2) - e delta sin(q pi/2)
\*    sin(q pi/2 + e delta) = sin(q pi/2) + e delta cos(q pi/2)
np_exp_1j(a) ==
    LET q == a[1][1]
        e == a[2]
    IN  <<FInt(CosQuarter(q)), FInt(SinQuarter(q)),
          FMul(FNeg(e), FInt(SinQuarter(q))), FMul(e, FInt(CosQuarter(q)))>>

\* a + b on angles
AngleAdd(a, b) == <<FAdd(a[1], b[1]), FAdd(a[2], b[2])>>

AngleNeg(a) == <<FNeg(a[1]), FNeg(a[2])>>

\* the double k * np.pi / 2
QuarterTurns(k) == AngleScale(Frac(k, 2), np_pi)

\* np.cos(a) for an angle whose q is an integer: the real number
\* <<main, d>> = main + d*delta
np_cos(a) ==
    <<FInt(CosQuarter(a[1][1])), FMul(FNeg(a[2]), FInt(SinQuarter(a[1][1])))>>

---------------------------------------------------------------------------
(* FluxQubit: the Hamiltonian assembly.  self is the parameter record.     *)

\* np.linalg.inv of a 2 x 2 real matrix (entries are fractions)
np_linalg_inv2(M) ==
    LET det == FSub(FMul(M[0][0], M[1][1]), FMul(M[0][1], M[1][0]))
    IN  [r \in 0..1 |-> [c \in 0..1 |->
            IF r = c THEN FDiv(M[1 - r][1 - c], det)
            ELSE FDiv(FNeg(M[r][c]), det)]]

EC_matrix(self) ==
    LET CJ1 == FDiv(F1, FMul(FInt(2), self.ECJ1))
        CJ2 == FDiv(F1, FMul(FInt(2), self.ECJ2))
        CJ3 == FDiv(F1, FMul(FInt(2), self.ECJ3))
        Cg1 == FDiv(F1, FMul(FInt(2), self.ECg1))
        Cg2 == FDiv(F1, FMul(FInt(2), self.ECg2))
        Cmat == [r \in 0..1 |-> [c \in 0..1 |->
                    IF r = 0 /\ c = 0 THEN FAdd(FAdd(CJ1, CJ3), Cg1)
                    ELSE IF r = 1 /\ c = 1 THEN FAdd(FAdd(CJ2, CJ3), Cg2)
                    ELSE FNeg(CJ3)]]
        inv == np_linalg_inv2(Cmat)
    IN  [r \in 0..1 |-> [c \in 0..1 |-> FDiv(inv[r][c], FInt(2))]]

\* a faulty hilbertdim: the dimension fixed when the object was built
hilbertdim_at_construction(self) == (2 * ctor.ncut + 1) ^ 2

hilbertdim(self) == (2 * self.ncut + 1) ^ 2

\* potential(phi1, phi2), a real number <<main, d>> = main + d*delta
potential(self, phi1, phi2) ==
    LET t1 == np_cos(phi1)
        t2 == np_cos(phi2)
        t3 == np_cos(AngleAdd(AngleAdd(AngleScale(FMul(FInt(2), self.flux), np_pi), phi1),
                              AngleNeg(phi2)))
        term(E, t) == <<FMul(FNeg(E), t[1]), FMul(FNeg(E), t[2])>>
        sum(x, y) == <<FAdd(x[1], y[1]), FAdd(x[2], y[2])>>
    IN  sum(sum(term(self.EJ1, t1), term(self.EJ2, t2)), term(self.EJ3, t3))

_n_operator(self) == np_diag(np_arange(-self.ncut, self.ncut + 1), 0)

_exp_i_phi_operator(self) ==
    LET dim == 2 * self.ncut + 1
    IN  np_diag(np_ones(dim - 1), 1)

_identity(self) ==
    LET dim == 2 * self.ncut + 1
    IN  np_eye(dim)

\* a faulty kineticmat: the flux in the place of the offset charge ng1
kineticmat_flux_for_ng1(self) ==
    LET ECmat == EC_matrix(self)
        n_ng1 == MSub(_n_operator(self), MScale(self.flux, _identity(self)))
        n_ng2 == MSub(_n_operator(self), MScale(self.ng2, _identity(self)))
        t1 == MScale(FMul(FInt(4), ECmat[0][0]),
                     np_kron(np_matmul(n_ng1, n_ng1), _identity(self)))
        t2 == MScale(FMul(FInt(4), ECmat[1][1]),
                     np_kron(_identity(self), np_matmul(n_ng2, n_ng2)))
        t3 == MScale(FMul(FInt(4), FAdd(ECmat[0][1], ECmat[1][0])),
                     np_kron(n_ng1, n_ng2))
    IN  MAdd(MAdd(t1, t2), t3)

kineticmat(self) ==
    LET ECmat == EC_matrix(self)
        n_ng1 == MSub(_n_operator(self), MScale(self.ng1, _identity(self)))
        n_ng2 == MSub(_n_operator(self), MScale(self.ng2, _identity(self)))
        t1 == MScale(FMul(FInt(4), ECmat[0][0]),
                     np_kron(np_matmul(n_ng1, n_ng1), _identity(self)))
        t2 == MScale(FMul(FInt(4), ECmat[1][1]),
                     np_kron(_identity(self), np_matmul(n_ng2, n_ng2)))
        t3 == MScale(FMul(FInt(4), FAdd(ECmat[0][1], ECmat[1][0])),
                     np_kron(n_ng1, n_ng2))
    IN  MAdd(MAdd(t1, t2), t3)

\* np.exp(1j * 2 * np.pi * self.flux)
ExpPlus(self) == np_exp_1j(AngleScale(FMul(FInt(2), self.flux), np_pi))

\* a faulty second phase factor: the sign of the exponent not flipped
ExpMinus_sign_kept(self) == ExpPlus(self)

\* np.exp(-1j * 2 * np.pi * self.flux)
ExpMinus(self) == np_exp_1j(AngleScale(FMul(FInt(-2), self.flux), np_pi))

potentialmat(self) ==
    LET E  == _exp_i_phi_operator(self)
        I  == _identity(self)
        t1 == MScale(FMul(Frac(-1, 2), self.EJ1), np_kron(MAdd(E, Transpose(E)), I))
        t2 == MScale(FMul(Frac(-1, 2), self.EJ2), np_kron(I, MAdd(E, Transpose(E))))
        t3 == MScale(FMul(Frac(-1, 2), self.EJ3),
                     MCScale(ExpPlus(self), np_kron(E, Transpose(E))))
        t4 == MScale(FMul(Frac(-1, 2), self.EJ3),
                     MCScale(ExpMinus(self), np_kron(Transpose(E), E)))
    IN  MAdd(MAdd(MAdd(t1, t2), t3), t4)

hamiltonian(self) == MAdd(kineticmat(self), potentialmat(self))

\* a faulty n_1_operator: the factors of the tensor product exchanged
n_1_operator_factors_exchanged(self) == np_kron(_identity(self), _n_operator(self))

n_1_operator(self) == np_kron(_n_operator(self), _identity(self))

n_2_operator(self) == np_kron(_identity(self), _n_operator(self))

exp_i_phi_1_operator(self) == np_kron(_exp_i_phi_operator(self), _identity(self))

exp_i_phi_2_operator(self) == np_kron(_identity(self), _exp_i_phi_operator(self))

cos_phi_1_operator(self) ==
    LET cos_op == MScale(Frac(1, 2), exp_i_phi_1_operator(self))
    IN  MAdd(cos_op, Transpose(cos_op))

cos_phi_2_operator(self) ==
    LET cos_op == MScale(Frac(1, 2), exp_i_phi_2_operator(self))
    IN  MAdd(cos_op, Transpose(cos_op))

sin_phi_1_operator(self) ==
    LET sin_op == MCScale(<<F0, Frac(-1, 2), F0, F0>>, exp_i_phi_1_operator(self))
    IN  MAdd(sin_op, Transpose(Conj(sin_op)))

sin_phi_2_operator(self) ==
    LET sin_op == MCScale(<<F0, Frac(-1, 2), F0, F0>>, exp_i_phi_2_operator(self))
    IN  MAdd(sin_op, Transpose(Conj(sin_op)))

---------------------------------------------------------------------------
(* The spectral hooks.  An eigenvalue of a matrix is named by its index in *)
(* the matrix's ascending spectrum (0 = lowest); component r of the        *)
(* eigenvector that belongs to eigenvalue index v is the tag <<v, r>>.     *)
(* The eigenvector array evecs (shape n x k, one eigenvector per column)   *)
(* is held by columns: evecs[c][r] is the numpy entry evecs[r, c].         *)

\* F applied to the value of e, with e evaluated once
With(e, F(_)) == CHOOSE y \in {F(x) : x \in {e}} : TRUE

\* the length of a one-dimensional array (a function on 0 .. len-1)
Size(v) == Cardinality(DOMAIN v)

\* A computed eigenvalue is <<rank, ulp>>: the eigenvalue of that rank in the
\* spectrum of the matrix (0 the lowest), as the solver's eigenvalue-only
\* routine rounds it, plus ulp units in the last place.
FloatLess(a, b) == a[1] < b[1] \/ (a[1] = b[1] /\ a[2] < b[2])

\* The solver is not part of this repository.  What the installed build may
\* do is one of: its routine for the full spectrum with eigenvectors returns
\* the eigenvalues bit for bit as its eigenvalue-only routine does (0), or
\* one unit in the last place away (1).  The build is fixed for a run.
LapackBuilds == {0, 1}

\* scipy.linalg.eigh(M, eigvals=(lo, hi), eigvals_only=...): the eigenvalues
\* with indices lo..hi in ascending order and, unless eigvals_only, their
\* eigenvectors as columns.  ValueError stands for the solver's rejection of
\* the index range: it needs 0 <= lo <= hi < n.  (scipy rejects lo < 0 and
\* hi >= n itself in every release; lo > hi is rejected by scipy itself
\* from release 1.5 on and by the LAPACK wrapper's argument test
\* before.)  LAPACK's ?heevr, which scipy calls, has three ways to the
\* eigenvalues: a 1 x 1 matrix is its own eigenvalue; an index range short of
\* the full spectrum is computed by bisection whether or not eigenvectors are
\* wanted; the full spectrum is computed by one routine (?sterf) when only
\* eigenvalues are wanted and by another (?stemr) along with the
\* eigenvectors.
sp_linalg_eigh(M, lo, hi, eigvals_only) ==
    With(Dim(M), LAMBDA n :
        IF lo < 0 \/ hi >= n \/ lo > hi
        THEN [status |-> "ValueError", evals |-> <<>>, evecs |-> <<>>]
        ELSE LET full == lo = 0 /\ hi = n - 1 /\ n > 1
                 ulp  == IF full /\ ~eigvals_only THEN lapack ELSE 0
             IN  [status |-> "ok",
                  evals  |-> [i \in Idx(hi - lo + 1) |-> <<lo + i, ulp>>],
                  evecs  |-> IF eigvals_only THEN <<>>
                             ELSE [c \in Idx(hi - lo + 1) |->
                                      [r \in Idx(n) |-> <<lo + c, r>>]]])

\* np.argsort(v): position i of the result holds the index of the i-th
\* smallest element of v (equal elements keep their order)
np_argsort(v) ==
    LET rank(i) == Cardinality({j \in DOMAIN v : FloatLess(v[j], v[i])})
                   + Cardinality({j \in DOMAIN v : j < i /\ v[j] = v[i]})
    IN  [i \in DOMAIN v |-> CHOOSE j \in DOMAIN v : rank(j) = i]

\* a faulty sort: largest first
np_sort_descending(v) == [i \in DOMAIN v |-> v[np_argsort(v)[Size(v) - 1 - i]]]

\* np.sort(v)
np_sort(v) == [i \in DOMAIN v |-> v[np_argsort(v)[i]]]

\* spectrum_utils.order_eigensystem(evals, evecs):
\*    evals[ordered_evals_indices], evecs[:, ordered_evals_indices]
order_eigensystem(evals, evecs) ==
    [evals |-> [i \in DOMAIN evals |-> evals[np_argsort(evals)[i]]],
     evecs |-> [c \in DOMAIN evals |-> evecs[np_argsort(evals)[c]]]]

\* a faulty solver request: eigvals=(0, evals_count), one index too many
_evals_calc_request_one_too_many(hamiltonian_mat, evals_count) ==
    With(sp_linalg_eigh(hamiltonian_mat, 0, evals_count, TRUE), LAMBDA res :
        IF res.status # "ok"
        THEN [status |-> res.status, evals |-> <<>>]
        ELSE [status |-> "ok", evals |-> np_sort(res.evals)])

\* _evals_calc from the matrix on: the solver request and the sort
_evals_calc_request(hamiltonian_mat, evals_count) ==
    With(sp_linalg_eigh(hamiltonian_mat, 0, evals_count - 1, TRUE), LAMBDA res :
        IF res.status # "ok"
        THEN [status |-> res.status, evals |-> <<>>]
        ELSE [status |-> "ok", evals |-> np_sort(res.evals)])

\* hamiltonian_mat = self.hamiltonian(), then the request
_evals_calc(self, evals_count) ==
    _evals_calc_request(hamiltonian(self), evals_count)

\* _esys_calc from the matrix on: the solver request and the ordering
_esys_calc_request(hamiltonian_mat, evals_count) ==
    With(sp_linalg_eigh(hamiltonian_mat, 0, evals_count - 1, FALSE), LAMBDA res :
        IF res.status # "ok"
        THEN [status |-> res.status, evals |-> <<>>, evecs |-> <<>>]
        ELSE [status |-> "ok",
              evals  |-> order_eigensystem(res.evals, res.evecs).evals,
              evecs  |-> order_eigensystem(res.evals, res.evecs).evecs])

\* hamiltonian_mat = self.hamiltonian(), then the request
_esys_calc(self, evals_count) ==
    _esys_calc_request(hamiltonian(self), evals_count)

\* QubitBaseClass.eigensys(evals_count): hands the request to _esys_calc
eigensys(self, evals_count) == _esys_calc(self, evals_count)

---------------------------------------------------------------------------
(* The wavefunction: the selected eigenvector as a d x d amplitude matrix  *)

Max(a, b) == IF a >= b THEN a ELSE b

NoEsys == [given |-> FALSE]

\* evecs[:, which]: an IndexError unless -ncols <= which < ncols
Column(evecs, ncols, which) ==
    IF which >= ncols \/ which < -ncols
    THEN [status |-> "IndexError", vec |-> <<>>]
    ELSE [status |-> "ok",
          vec |-> evecs[IF which < 0 THEN which + ncols ELSE which]]

\* np.reshape(vec, (dim, dim)), row-major: entry [i, j] is vec[i*dim + j]
np_reshape(vec, dim) ==
    IF Size(vec) # dim * dim
    THEN [status |-> "ValueError", mat |-> <<>>]
    ELSE [status |-> "ok",
          mat |-> [i \in Idx(dim) |-> [j \in Idx(dim) |-> vec[i * dim + j]]]]

\* what wavefunction does once it has the eigenvectors
Amplitudes(self, sys, requested, which) ==
    With(Column(sys.evecs, Size(sys.evals), which), LAMBDA col :
        IF col.status # "ok"
        THEN [status |-> col.status, requested |-> requested, state_amplitudes |-> <<>>]
        ELSE With(np_reshape(col.vec, 2 * self.ncut + 1), LAMBDA shaped :
                [status |-> shaped.status, requested |-> requested,
                 state_amplitudes |-> shaped.mat]))

\* wavefunction(esys, which) up to state_amplitudes; requested is the
\* number of eigenstates asked of the solver (0 when esys is supplied)
wavefunction(self, esys, which) ==
    IF esys.given
    THEN Amplitudes(self, esys, 0, which)
    ELSE With(eigensys(self, Max(which + 1, 3)), LAMBDA sys :
            IF sys.status # "ok"
            THEN [status |-> sys.status, requested |-> Max(which + 1, 3),
                  state_amplitudes |-> <<>>]
            ELSE Amplitudes(self, sys, Max(which + 1, 3), which))

---------------------------------------------------------------------------
(* The object: construction, attribute assignment and method calls         *)

\* the values an attribute takes: the constructor's value and another one
EJ1Values == {FInt(2), FInt(3)}

EJ2Values == {FInt(2), FInt(5)}

EJ3Values == {FInt(1), FInt(4)}

ECValues == {FInt(1), FInt(2)}

NgValues == {F0, Frac(1, 2)}

\* flux in units of the flux quantum, multiples of 1/4: the half quantum of
\* the constructor call, where the phase factor is real, and a quarter,
\* where it is not
FluxValues == {Frac(1, 4), Frac(1, 2)}

NcutValues == 0 .. MaxNcut

\* truncated_dim: 0 stands for None
TruncValues == {0, 4}

Fields == {"EJ1", "EJ2", "EJ3", "ECJ1", "ECJ2", "ECJ3", "ECg1", "ECg2",
           "ng1", "ng2", "flux", "ncut", "truncated_dim"}

Values(f) ==
    IF f = "EJ1" THEN EJ1Values
    ELSE IF f = "EJ2" THEN EJ2Values
    ELSE IF f = "EJ3" THEN EJ3Values
    ELSE IF f \in {"ECJ1", "ECJ2", "ECJ3", "ECg1", "ECg2"} THEN ECValues
    ELSE IF f \in {"ng1", "ng2"} THEN NgValues
    ELSE IF f = "flux" THEN FluxValues
    ELSE IF f = "ncut" THEN NcutValues
    ELSE TruncValues

\* the constructor call of the class docstring, scaled down: EJ1 = EJ2 = 2,
\* EJ3 = alpha * EJ1 and ECJ3 = ECJ1 / alpha with alpha = 1/2, no offset
\* charge, half a flux quantum, charge cutoff 1
CtorArgs ==
    [EJ1 : {FInt(2)}, EJ2 : {FInt(2)}, EJ3 : {FInt(1)},
     ECJ1 : {FInt(1)}, ECJ2 : {FInt(1)}, ECJ3 : {FInt(2)},
     ECg1 : {FInt(2)}, ECg2 : {FInt(2)}, ng1 : {F0}, ng2 : {F0},
     flux : {Frac(1, 2)}, ncut : {1}, truncated_dim : {0}]

Returned(op, arg, status, out) == [op |-> op, arg |-> arg, status |-> status, out |-> out]

\* what the caller holds between two operations: nothing
NoResult == Returned("none", <<>>, "ok", <<>>)

\* __init__
Init ==
    /\ qubit \in CtorArgs
    /\ ctor = qubit
    /\ last = NoResult
    /\ nAssign = 0
    /\ lapack \in LapackBuilds

\* the caller is between two operations: it holds no unread result
Idle == last = NoResult

\* an attribute assignment  qubit.f = v  (to a value other than the current
\* one: assigning the current value leaves the object as it is)
Assign ==
    /\ Idle
    /\ nAssign < MaxAssign
    /\ \E f \in Fields : \E v \in Values(f) \ {qubit[f]} :
          qubit' = [qubit EXCEPT ![f] = v]
    /\ nAssign' = nAssign + 1
    /\ UNCHANGED <<ctor, last, lapack>>

\* a method call is made between operations and changes no attribute
Frame == Idle /\ UNCHANGED <<qubit, ctor, nAssign, lapack>>

\* the caller has read the returned value and goes on
Return ==
    /\ ~Idle
    /\ last' = NoResult
    /\ UNCHANGED <<qubit, ctor, nAssign, lapack>>

Call_EC_matrix ==
    /\ Frame
    /\ last' = Returned("EC_matrix", <<>>, "ok", EC_matrix(qubit))

Call_hilbertdim ==
    /\ Frame
    /\ last' = Returned("hilbertdim", <<>>, "ok", hilbertdim(qubit))

\* the grid points a caller evaluates the potential at: phi = k * np.pi / 2
Phi1Args == {0, 1}

Phi2Args == {0}

Call_potential ==
    /\ Frame
    /\ \E k1 \in Phi1Args : \E k2 \in Phi2Args :
          last' = Returned("potential", <<k1, k2>>, "ok",
                           potential(qubit, QuarterTurns(k1), QuarterTurns(k2)))

Call_kineticmat ==
    /\ Frame
    /\ last' = Returned("kineticmat", <<>>, "ok", kineticmat(qubit))

Call_potentialmat ==
    /\ Frame
    /\ last' = Returned("potentialmat", <<>>, "ok", potentialmat(qubit))

\* a faulty hamiltonian call: the matrix computed at construction is kept
\* and handed out again
Call_hamiltonian_memoized ==
    /\ Frame
    /\ last' = Returned("hamiltonian", <<>>, "ok", hamiltonian(ctor))

Call_hamiltonian ==
    /\ Frame
    /\ last' = Returned("hamiltonian", <<>>, "ok", hamiltonian(qubit))

Call_n_operator ==
    /\ Frame
    /\ last' = Returned("_n_operator", <<>>, "ok", _n_operator(qubit))

Call_exp_i_phi_operator ==
    /\ Frame
    /\ last' = Returned("_exp_i_phi_operator", <<>>, "ok", _exp_i_phi_operator(qubit))

Call_identity ==
    /\ Frame
    /\ last' = Returned("_identity", <<>>, "ok", _identity(qubit))

Call_n_1_operator ==
    /\ Frame
    /\ last' = Returned("n_1_operator", <<>>, "ok", n_1_operator(qubit))

Call_n_2_operator ==
    /\ Frame
    /\ last' = Returned("n_2_operator", <<>>, "ok", n_2_operator(qubit))

Call_exp_i_phi_1_operator ==
    /\ Frame
    /\ last' = Returned("exp_i_phi_1_operator", <<>>, "ok", exp_i_phi_1_operator(qubit))

Call_exp_i_phi_2_operator ==
    /\ Frame
    /\ last' = Returned("exp_i_phi_2_operator", <<>>, "ok", exp_i_phi_2_operator(qubit))

Call_cos_phi_1_operator ==
    /\ Frame
    /\ last' = Returned("cos_phi_1_operator", <<>>, "ok", cos_phi_1_operator(qubit))

Call_cos_phi_2_operator ==
    /\ Frame
    /\ last' = Returned("cos_phi_2_operator", <<>>, "ok", cos_phi_2_operator(qubit))

Call_sin_phi_1_operator ==
    /\ Frame
    /\ last' = Returned("sin_phi_1_operator", <<>>, "ok", sin_phi_1_operator(qubit))

Call_sin_phi_2_operator ==
    /\ Frame
    /\ last' = Returned("sin_phi_2_operator", <<>>, "ok", sin_phi_2_operator(qubit))

\* the counts a caller asks for: around zero and around the dimension
CountArgs(self) == (0 .. 2) \cup {hilbertdim(self), hilbertdim(self) + 1}

Call_evals_calc ==
    /\ Frame
    /\ \E hamiltonian_mat \in {hamiltonian(qubit)} :
          \E evals_count \in CountArgs(qubit) :
              \E res \in {_evals_calc_request(hamiltonian_mat, evals_count)} :
                  last' = Returned("_evals_calc", <<evals_count>>, res.status, res)

Call_esys_calc ==
    /\ Frame
    /\ \E hamiltonian_mat \in {hamiltonian(qubit)} :
          \E evals_count \in CountArgs(qubit) :
              \E res \in {_esys_calc_request(hamiltonian_mat, evals_count)} :
                  last' = Returned("_esys_calc", <<evals_count>>, res.status, res)

\* the ranks a caller asks for
WhichArgs(self) == {0, hilbertdim(self) - 1, hilbertdim(self)}

\* the sizes of the eigensystems a caller supplies: 0 for none (esys=None),
\* m > 0 for the m lowest eigenstates of the current Hamiltonian
SuppliedArgs(self) == {m \in {0, 2} : m <= hilbertdim(self)}

\* an eigensystem of m states of an n-dimensional system, as eigensys returns it
SuppliedEsys(n, m) ==
    [given  |-> TRUE, status |-> "ok",
     evals  |-> [i \in Idx(m) |-> <<i, 0>>],
     evecs  |-> [c \in Idx(m) |-> [r \in Idx(n) |-> <<c, r>>]]]

Call_wavefunction ==
    /\ Frame
    /\ \E which \in WhichArgs(qubit) : \E m \in SuppliedArgs(qubit) :
          \E esys \in {IF m = 0 THEN NoEsys ELSE SuppliedEsys(hilbertdim(qubit), m)} :
              \E res \in {wavefunction(qubit, esys, which)} :
                  last' = Returned("wavefunction", <<which, m>>, res.status, res)

Next ==
    \/ Assign
    \/ Call_EC_matrix
    \/ Call_hilbertdim
    \/ Call_potential
    \/ Call_kineticmat
    \/ Call_potentialmat
    \/ Call_hamiltonian
    \/ Call_n_operator
    \/ Call_exp_i_phi_operator
    \/ Call_identity
    \/ Call_n_1_operator
    \/ Call_n_2_operator
    \/ Call_exp_i_phi_1_operator
    \/ Call_exp_i_phi_2_operator
    \/ Call_cos_phi_1_operator
    \/ Call_cos_phi_2_operator
    \/ Call_sin_phi_1_operator
    \/ Call_sin_phi_2_operator
    \/ Call_evals_calc
    \/ Call_esys_calc
    \/ Call_wavefunction
    \/ Return

Spec == Init /\ [][Next]_vars

---------------------------------------------------------------------------
(* Properties *)

\* the dimension (2*ncut+1)^2 written out for the current cutoff
SquareOfOdd(ncut) == (2 * ncut + 1) * (2 * ncut + 1)

\* C6: whatever assignments were made before, hilbertdim() returns
\* (2*ncut+1)^2 for the value ncut has when it is called
C6_hilbertdim_current_ncut ==
    last.op = "hilbertdim" => last.out = SquareOfOdd(qubit.ncut)

\* hilbertdim() was called after ncut was assigned a value other than the
\* constructor's, as the last of two assignments or after them
C6_witness_after_ncut_assignment ==
    /\ last.op = "hilbertdim"
    /\ nAssign = 2
    /\ qubit.ncut # ctor.ncut
    /\ last.out = SquareOfOdd(qubit.ncut)

\* what a call of method op with arguments arg returns for the parameter
\* set self, computed from self alone
Result(op, arg, self) ==
    CASE op = "EC_matrix" -> EC_matrix(self)
      [] op = "hilbertdim" -> hilbertdim(self)
      [] op = "potential" -> potential(self, QuarterTurns(arg[1]), QuarterTurns(arg[2]))
      [] op = "kineticmat" -> kineticmat(self)
      [] op = "potentialmat" -> potentialmat(self)
      [] op = "hamiltonian" -> hamiltonian(self)
      [] op = "_n_operator" -> _n_operator(self)
      [] op = "_exp_i_phi_operator" -> _exp_i_phi_operator(self)
      [] op = "_identity" -> _identity(self)
      [] op = "n_1_operator" -> n_1_operator(self)
      [] op = "n_2_operator" -> n_2_operator(self)
      [] op = "exp_i_phi_1_operator" -> exp_i_phi_1_operator(self)
      [] op = "exp_i_phi_2_operator" -> exp_i_phi_2_operator(self)
      [] op = "cos_phi_1_operator" -> cos_phi_1_operator(self)
      [] op = "cos_phi_2_operator" -> cos_phi_2_operator(self)
      [] op = "sin_phi_1_operator" -> sin_phi_1_operator(self)
      [] op = "sin_phi_2_operator" -> sin_phi_2_operator(self)
      [] op = "_evals_calc" -> _evals_calc(self, arg[1])
      [] op = "_esys_calc" -> _esys_calc(self, arg[1])
      [] op = "wavefunction" ->
            wavefunction(self, IF arg[2] = 0 THEN NoEsys
                               ELSE SuppliedEsys(hilbertdim(self), arg[2]), arg[1])

\* the operations C9 is about: everything but wavefunction and potential
C9Ops ==
    {"EC_matrix", "kineticmat", "potentialmat", "hamiltonian", "hilbertdim",
     "_evals_calc", "_esys_calc", "_n_operator", "_exp_i_phi_operator",
     "_identity", "n_1_operator", "n_2_operator",
     "exp_i_phi_1_operator", "exp_i_phi_2_operator", "cos_phi_1_operator",
     "cos_phi_2_operator", "sin_phi_1_operator", "sin_phi_2_operator"}

\* C9: a call leaves every attribute as it was, and what it returns is a
\* function of the attribute values at the time of the call alone (nothing
\* computed before an assignment survives it)
C9_calls_pure_and_frame ==
    [][(Idle /\ ~Idle' /\ last'.op \in C9Ops)
          => /\ qubit' = qubit
             /\ last'.out = Result(last'.op, last'.arg, qubit')]_vars

\* a call was made after two assignments changed the parameter set, and it
\* returned the value that belongs to the changed parameters
C9_witness_call_after_assignments ==
    /\ last.op = "hamiltonian"
    /\ nAssign = 2
    /\ qubit.flux # ctor.flux
    /\ qubit.ncut = ctor.ncut
    /\ last.out = hamiltonian(qubit)
    /\ last.out # hamiltonian(ctor)

\* C2: _evals_calc(count) and _esys_calc(count) end in the solver's range
\* error, with no eigenvalue and no eigenvector returned, exactly when
\* count <= 0 or count > hilbertdim(); otherwise they return count eigenvalues
C2_count_out_of_range_fails ==
    last.op \in {"_evals_calc", "_esys_calc"} =>
        LET count == last.arg[1]
        IN  IF count <= 0 \/ count > SquareOfOdd(qubit.ncut)
            THEN /\ last.status = "ValueError"
                 /\ Size(last.out.evals) = 0
                 /\ last.op = "_esys_calc" => Size(last.out.evecs) = 0
            ELSE /\ last.status = "ok"
                 /\ Size(last.out.evals) = count

\* _esys_calc was asked for one eigenstate more than the dimension and failed
C2_witness_count_above_dimension ==
    /\ last.op = "_esys_calc"
    /\ last.arg[1] = SquareOfOdd(qubit.ncut) + 1
    /\ last.status = "ValueError"
    /\ Size(last.out.evecs) = 0

NonDecreasing(v) == \A i, j \in DOMAIN v : i < j => ~FloatLess(v[j], v[i])

C4_index_ordering ==
    LET d == 2 * qubit.ncut + 1
    IN  /\ last.op = "n_1_operator" =>
              \A i, j \in Idx(d) :
                  last.out[i * d + j][i * d + j] = CReal(FInt(i - qubit.ncut))
        /\ last.op = "n_2_operator" =>
              \A i, j \in Idx(d) :
                  last.out[i * d + j][i * d + j] = CReal(FInt(j - qubit.ncut))
        /\ (last.op = "wavefunction" /\ last.status = "ok") =>
              \A i, j \in Idx(d) :
                  last.out.state_amplitudes[i][j] = <<last.arg[1], i * d + j>>

\* n_1_operator was called on the 3 x 3 charge lattice: the charge of mode 1
\* changes every third index
C4_witness_n_1_on_lattice ==
    /\ last.op = "n_1_operator"
    /\ qubit.ncut = 1
    /\ last.out[2][2] = CReal(FInt(-1))
    /\ last.out[3][3] = CReal(F0)
    /\ last.out[8][8] = CReal(F1)

\* C1: the matrix hamiltonian() returns equals its conjugate transpose
C1_hamiltonian_hermitian ==
    last.op = "hamiltonian" =>
        \A r, c \in DOMAIN last.out : last.out[r][c] = CConj(last.out[c][r])

\* hamiltonian() returned a matrix with an entry that is not real
C1_witness_complex_entries ==
    /\ last.op = "hamiltonian"
    /\ qubit.flux = Frac(1, 4)
    /\ \E r, c \in DOMAIN last.out :
          /\ last.out[r][c][2] # F0
          /\ last.out[r][c] = CConj(last.out[c][r])

\* the same parameters one flux quantum further
FluxPlusOne(self) == [self EXCEPT !.flux = FAdd(@, F1)]

\* the part of a number that does not come from the rounding of np.pi
Main(z) == <<z[1], z[2]>>

\* entry [r, c] of a matrix on the d x d charge lattice is one of the two
\* EJ3 terms: it joins (n1, n2) with (n1 - 1, n2 + 1) or (n1 + 1, n2 - 1)
IsCrossTerm(r, c, d) ==
    \/ (r \div d) - (c \div d) = 1 /\ (r % d) - (c % d) = -1
    \/ (r \div d) - (c \div d) = -1 /\ (r % d) - (c % d) = 1

\* C5 as stated: hamiltonian() at flux f and at flux f + 1 returns exactly
\* equal matrices, entry by entry
C5_flux_period_exact ==
    last.op = "hamiltonian" => last.out = hamiltonian(FluxPlusOne(qubit))

\* C5 amended: hamiltonian() at flux f and at flux f + 1 agrees exactly in
\* every entry but the EJ3 cross terms, and in those up to the rounding of
\* 2*np.pi*flux in the phase factor
C5_flux_period_up_to_rounding ==
    last.op = "hamiltonian" =>
        With(hamiltonian(FluxPlusOne(qubit)), LAMBDA shifted :
            \A r, c \in DOMAIN last.out :
                IF IsCrossTerm(r, c, 2 * qubit.ncut + 1)
                THEN Main(last.out[r][c]) = Main(shifted[r][c])
                ELSE last.out[r][c] = shifted[r][c])

\* hamiltonian() returned a matrix whose EJ3 cross terms are not those of
\* the flux one quantum further, though they agree up to the rounding
C5_witness_cross_terms_differ ==
    /\ last.op = "hamiltonian"
    /\ qubit.ncut = 1
    /\ qubit.flux = Frac(1, 4)
    /\ last.out[1][3] # hamiltonian(FluxPlusOne(qubit))[1][3]
    /\ Main(last.out[1][3]) = Main(hamiltonian(FluxPlusOne(qubit))[1][3])
    /\ Main(last.out[1][3]) # Main(C0)

RECURSIVE ApplyFrom(_, _, _, _)
ApplyFrom(M, v, r, k) ==
    IF k = Dim(M) THEN C0
    ELSE CAdd(CMul(M[r][k], v[k]), ApplyFrom(M, v, r, k + 1))

\* the matrix M applied to the column vector v
Apply(M, v) == [r \in DOMAIN M |-> ApplyFrom(M, v, r, 0)]

\* the single-mode basis vector of charge n: the eigenvector of
\* _n_operator() with eigenvalue n
ChargeState(self, n) ==
    [i \in Idx(2 * self.ncut + 1) |->
        IF _n_operator(self)[i][i] = CReal(FInt(n)) THEN C1one ELSE C0]

\* C7: _exp_i_phi_operator() applied to the basis vector of charge n,
\* -ncut <= n < ncut, yields the basis vector of charge n + 1, and its
\* transpose takes charge n, -ncut < n <= ncut, to charge n - 1
C7_exp_i_phi_raises_charge ==
    last.op = "_exp_i_phi_operator" =>
        \A n \in (-qubit.ncut) .. qubit.ncut :
            /\ n < qubit.ncut =>
                  Apply(last.out, ChargeState(qubit, n)) = ChargeState(qubit, n + 1)
            /\ n > -qubit.ncut =>
                  Apply(Transpose(last.out), ChargeState(qubit, n))
                      = ChargeState(qubit, n - 1)

\* what the code does instead: the returned matrix lowers the charge by one
\* and its transpose raises it
Exp_i_phi_lowers_charge ==
    last.op = "_exp_i_phi_operator" =>
        \A n \in (-qubit.ncut) .. qubit.ncut :
            /\ n > -qubit.ncut =>
                  Apply(last.out, ChargeState(qubit, n)) = ChargeState(qubit, n - 1)
            /\ n < qubit.ncut =>
                  Apply(Transpose(last.out), ChargeState(qubit, n))
                      = ChargeState(qubit, n + 1)

\* the matrix element of the potential C8 names for the step
\* (n1, n2) -> (n1 + s1, n2 + s2)
ClaimedElement(self, s1, s2) ==
    IF s2 = 0 /\ s1 \in {-1, 1} THEN CReal(FMul(Frac(-1, 2), self.EJ1))
    ELSE IF s1 = 0 /\ s2 \in {-1, 1} THEN CReal(FMul(Frac(-1, 2), self.EJ2))
    ELSE IF s1 = 1 /\ s2 = -1
         THEN CScale(FMul(Frac(-1, 2), self.EJ3), ExpPlus(self))
    ELSE IF s1 = -1 /\ s2 = 1
         THEN CScale(FMul(Frac(-1, 2), self.EJ3), ExpMinus(self))
    ELSE C0

\* the sum over the grid points (a, b) = (k \div 4, k % 4), from k on, of
\* the real (part = 1) or imaginary (part = 2) part of
\* potential(a*pi/2, b*pi/2) * exp(-i*(s1*a + s2*b)*pi/2), exact parts only
RECURSIVE FourierFrom(_, _, _, _, _)
FourierFrom(self, s1, s2, part, k) ==
    IF k = 16 THEN F0
    ELSE LET a == k \div 4
             b == k % 4
             V == potential(self, QuarterTurns(a), QuarterTurns(b))[1]
             q == -(s1 * a + s2 * b)
             w == IF part = 1 THEN CosQuarter(q) ELSE SinQuarter(q)
         IN  FAdd(FMul(V, FInt(w)), FourierFrom(self, s1, s2, part, k + 1))

\* the matrix element <n1+s1, n2+s2| potential |n1, n2> between the charge
\* states exp(i*n*phi)/sqrt(2*pi), by quadrature on the 4 x 4 grid (exact
\* for a potential of first harmonics when |s1|, |s2| <= 2)
FourierElement(self, s1, s2) ==
    <<FMul(Frac(1, 16), FourierFrom(self, s1, s2, 1, 0)),
      FMul(Frac(1, 16), FourierFrom(self, s1, s2, 2, 0))>>

\* for every parameter set the elements C8 names are those of potential()
\* in the basis convention of wavefunction()
ClaimedElementsAreThoseOfPotential ==
    Idle =>
        \A s1, s2 \in -2 .. 2 :
            Main(ClaimedElement(qubit, s1, s2)) = FourierElement(qubit, s1, s2)

\* the index of the charge pair (n1, n2) in the composite basis
PairIndex(self, n1, n2) ==
    (n1 + self.ncut) * (2 * self.ncut + 1) + (n2 + self.ncut)

\* C8: away from the truncation edge the elements of potentialmat() are,
\* up to rounding, -EJ1/2 for (n1,n2) -> (n1 +- 1, n2), -EJ2/2 for
\* (n1,n2) -> (n1, n2 +- 1), -(EJ3/2)*exp(+i*2*pi*flux) for
\* (n1,n2) -> (n1+1, n2-1), -(EJ3/2)*exp(-i*2*pi*flux) for
\* (n1,n2) -> (n1-1, n2+1), and zero otherwise
C8_potentialmat_elements ==
    last.op = "potentialmat" =>
        \A n1, n2 \in (1 - qubit.ncut) .. (qubit.ncut - 1) :
            \A m1, m2 \in (-qubit.ncut) .. qubit.ncut :
                Main(last.out[PairIndex(qubit, m1, m2)][PairIndex(qubit, n1, n2)])
                    = Main(ClaimedElement(qubit, m1 - n1, m2 - n2))

\* what the code does instead: the two phase factors are exchanged
Potentialmat_elements_conjugated ==
    last.op = "potentialmat" =>
        \A n1, n2 \in (1 - qubit.ncut) .. (qubit.ncut - 1) :
            \A m1, m2 \in (-qubit.ncut) .. qubit.ncut :
                last.out[PairIndex(qubit, m1, m2)][PairIndex(qubit, n1, n2)]
                    = CConj(ClaimedElement(qubit, m1 - n1, m2 - n2))

\* C10: without an eigensystem wavefunction() asks the solver for
\* max(which+1, 3) eigenstates, and for 0 <= which < hilbertdim() that
\* number is within 1..hilbertdim() and the call does not end in the
\* solver's range error; with an eigensystem supplied nothing is asked of
\* the solver and a which beyond the supplied eigenvectors fails
C10_wavefunction_request_in_range ==
    last.op = "wavefunction" =>
        LET which == last.arg[1]
            supplied == last.arg[2]
            dim == SquareOfOdd(qubit.ncut)
        IN  /\ (supplied = 0 /\ 0 <= which /\ which < dim) =>
                  /\ last.out.requested = Max(which + 1, 3)
                  /\ last.out.requested \in 1 .. dim
                  /\ last.status # "ValueError"
            /\ supplied > 0 =>
                  /\ last.out.requested = 0
                  /\ which >= supplied => last.status = "IndexError"

\* what holds of the code: the request is max(which+1, 3) whatever the
\* dimension, and it fails exactly when that exceeds the dimension
Wavefunction_request_unchecked ==
    (last.op = "wavefunction" /\ last.arg[2] = 0) =>
        /\ last.out.requested = Max(last.arg[1] + 1, 3)
        /\ last.status = "ValueError"
              <=> Max(last.arg[1] + 1, 3) > SquareOfOdd(qubit.ncut)

==========================================================================
